---- MODULE Spec2Model ----
(***************************************************************************)
(* State compressor of the homeserver: the layered diff store, the stack   *)
(* cache and the snapshot committer of                                     *)
(* src/src/service/rooms/state_compressor/mod.rs.                          *)
(*                                                                         *)
(* A compressed state event (16 bytes in the source) is a small integer;   *)
(* a short_state_hash is a positive integer, 0 standing for "none".        *)
(***************************************************************************)
EXTENDS Integers, Sequences, FiniteSets, TLC

\* ------------------------------------------------------------------ bounds
NumEvents == 3          \* distinct compressed state events
MaxStateSize == 2       \* events in one state set
MaxHashes == 5          \* short_state_hashes the registry may mint
CacheCapacity == 1      \* state_cache_capacity (configuration input)
NumRooms == 1           \* rooms
NumTasks == 2           \* concurrent callers of save_state
MaxCalls == 2           \* save_state calls of one task in the stepwise specifications
MaxTaskHashes == 6      \* short_state_hashes the registry may mint in them
MaxFrames == 6          \* nested load_shortstatehash_info calls the call stack has room for

\* ------------------------------------------------------- program constants
MaxParentLayers_offbyone == 3 + 1

MaxParentLayers == 3    \* mod.rs:150  parent_states.len() > 3
SizeFactor == 2         \* mod.rs:208  2 * diff_to_sibling * parent_diff
InitialDiffToSibling == 2   \* mod.rs:301
U64Size == 8            \* mod.rs:51   size_of::<u64>()

Events == 1..NumEvents
Rooms == 1..NumRooms
Tasks == 1..NumTasks
Hashes == 1..MaxHashes
None == 0

VARIABLES
    statediff,            \* diff store: shortstatehash -> StateDiff
    shortstatehashes,     \* registry: shortstatehashes[h] = state hash bytes of h
    room_shortstatehash,  \* room -> current shortstatehash, None for a new room
    stateinfo_cache,      \* LRU of stacks, least recently used first
    ret,                  \* what the latest call returned, with the arguments it was given
    committed,            \* history: (state set, shortstatehash) of successful calls
    task                  \* task -> its position in save_state and its locals

vars == <<statediff, shortstatehashes, room_shortstatehash, stateinfo_cache, ret, committed,
          task>>

\* ---------------------------------------------------------------- helpers
Range(s) == {s[i] : i \in DOMAIN s}

Last(s) == s[Len(s)]

Front(s) == SubSeq(s, 1, Len(s) - 1)

\* every enumeration order of every state set: a HashSet yields its elements
\* in an order that is not a function of the set
Enumerations ==
    {s \in UNION {[1..n -> Events] : n \in 1..MaxStateSize} :
        \A i, j \in DOMAIN s : i # j => s[i] # s[j]}

\* short ids are minted in increasing order: a compressed event occurs in a
\* state set only once every lower one has occurred in this or an earlier set
MintedInOrder(registry, new_state) ==
    \E k \in 0..NumEvents :
        new_state \cup UNION {Range(registry[h]) : h \in DOMAIN registry} = 1..k

\* ------------------------------------------------------- short-ID registry
\* utils::calculate_hash: the digest is collision free, so it is modelled by
\* the byte string it digests, the elements in sorted order
calculate_hash_unsorted(keys) == keys

calculate_hash(keys) == SortSeq(keys, LAMBDA a, b : a < b)

\* services().rooms.short.get_or_create_shortstatehash
get_or_create_shortstatehash(registry, state_hash) ==
    IF \E h \in DOMAIN registry : registry[h] = state_hash
    THEN [registry |-> registry,
          shortstatehash |-> CHOOSE h \in DOMAIN registry : registry[h] = state_hash,
          already_existed |-> TRUE]
    ELSE [registry |-> Append(registry, state_hash),
          shortstatehash |-> Len(registry) + 1,
          already_existed |-> FALSE]

\* -------------------------------------------------------------- diff store
StateDiff(parent, added, removed) ==
    [parent |-> parent, added |-> added, removed |-> removed]

has_statediff(db, h) == h \in DOMAIN db

get_statediff(db, h) == db[h]

save_statediff(db, h, diff) ==
    [k \in (DOMAIN db) \cup {h} |-> IF k = h THEN diff ELSE db[k]]

\* ------------------------------------------------------------- stack cache
\* lru_cache::LruCache, least recently used entry first
CacheContains(cache, k) == \E i \in DOMAIN cache : cache[i].key = k

CacheIndex(cache, k) == CHOOSE i \in DOMAIN cache : cache[i].key = k

CacheWithout(cache, k) ==
    IF CacheContains(cache, k)
    THEN LET i == CacheIndex(cache, k)
         IN  SubSeq(cache, 1, i - 1) \o SubSeq(cache, i + 1, Len(cache))
    ELSE cache

\* get_mut: the entry becomes the most recently used
CacheGetMut(cache, k) ==
    LET e == cache[CacheIndex(cache, k)]
    IN  [value |-> e.value, cache |-> Append(CacheWithout(cache, k), e)]

\* insert: replaces, becomes most recently used, evicts the least recently used
CacheInsert(cache, k, v) ==
    LET c == Append(CacheWithout(cache, k), [key |-> k, value |-> v])
    IN  IF Len(c) > CacheCapacity THEN SubSeq(c, Len(c) - CacheCapacity + 1, Len(c)) ELSE c

\* ------------------------------------------------------------ layer engine
StackEntry(h, full, added, removed) ==
    [shortstatehash |-> h, full |-> full, added |-> added, removed |-> removed]

LoadErr(cache) == [ok |-> FALSE, stack |-> <<>>, cache |-> cache]

\* Service::load_shortstatehash_info, cache insert before the push
RECURSIVE load_shortstatehash_info_stale(_, _, _)
load_shortstatehash_info_stale(db, cache, shortstatehash) ==
    IF CacheContains(cache, shortstatehash)
    THEN LET g == CacheGetMut(cache, shortstatehash)
         IN  [ok |-> TRUE, stack |-> g.value, cache |-> g.cache]
    ELSE IF ~has_statediff(db, shortstatehash)
    THEN LoadErr(cache)
    ELSE LET d == get_statediff(db, shortstatehash)
         IN  IF d.parent # None
             THEN LET r == load_shortstatehash_info_stale(db, cache, d.parent)
                  IN  IF ~r.ok
                      THEN r
                      ELSE LET state == (Last(r.stack).full \cup d.added) \ d.removed
                               response == Append(r.stack,
                                   StackEntry(shortstatehash, state, d.added, d.removed))
                           IN  [ok |-> TRUE, stack |-> response,
                                cache |-> CacheInsert(r.cache, shortstatehash, r.stack)]
             ELSE LET response == <<StackEntry(shortstatehash, d.added, d.added, d.removed)>>
                  IN  [ok |-> TRUE, stack |-> response,
                       cache |-> CacheInsert(cache, shortstatehash, response)]

\* Service::load_shortstatehash_info, the full state built on the first
\* element of the parent's stack instead of the last
RECURSIVE load_shortstatehash_info_fromroot(_, _, _)
load_shortstatehash_info_fromroot(db, cache, shortstatehash) ==
    IF CacheContains(cache, shortstatehash)
    THEN LET g == CacheGetMut(cache, shortstatehash)
         IN  [ok |-> TRUE, stack |-> g.value, cache |-> g.cache]
    ELSE IF ~has_statediff(db, shortstatehash)
    THEN LoadErr(cache)
    ELSE LET d == get_statediff(db, shortstatehash)
         IN  IF d.parent # None
             THEN LET r == load_shortstatehash_info_fromroot(db, cache, d.parent)
                  IN  IF ~r.ok
                      THEN r
                      ELSE LET state == (r.stack[1].full \cup d.added) \ d.removed
                               response == Append(r.stack,
                                   StackEntry(shortstatehash, state, d.added, d.removed))
                           IN  [ok |-> TRUE, stack |-> response,
                                cache |-> CacheInsert(r.cache, shortstatehash, response)]
             ELSE LET response == <<StackEntry(shortstatehash, d.added, d.added, d.removed)>>
                  IN  [ok |-> TRUE, stack |-> response,
                       cache |-> CacheInsert(cache, shortstatehash, response)]

\* Service::load_shortstatehash_info
RECURSIVE load_shortstatehash_info(_, _, _)
load_shortstatehash_info(db, cache, shortstatehash) ==
    IF CacheContains(cache, shortstatehash)
    THEN LET g == CacheGetMut(cache, shortstatehash)
         IN  [ok |-> TRUE, stack |-> g.value, cache |-> g.cache]
    ELSE IF ~has_statediff(db, shortstatehash)
    THEN LoadErr(cache)
    ELSE LET d == get_statediff(db, shortstatehash)
         IN  IF d.parent # None
             THEN LET r == load_shortstatehash_info(db, cache, d.parent)
                  IN  IF ~r.ok
                      THEN r
                      ELSE LET state == (Last(r.stack).full \cup d.added) \ d.removed
                               response == Append(r.stack,
                                   StackEntry(shortstatehash, state, d.added, d.removed))
                           IN  [ok |-> TRUE, stack |-> response,
                                cache |-> CacheInsert(r.cache, shortstatehash, response)]
             ELSE LET response == <<StackEntry(shortstatehash, d.added, d.added, d.removed)>>
                  IN  [ok |-> TRUE, stack |-> response,
                       cache |-> CacheInsert(cache, shortstatehash, response)]

\* the fold without cancellation: both halves are plain unions
MergeIntoParent_union(parent, statediffnew, statediffremoved) ==
    [added |-> parent.added \cup statediffnew,
     removed |-> parent.removed \cup statediffremoved]

\* the fold that records a removal even when it cancels the parent's addition
MergeIntoParent_keepremoved(parent, statediffnew, statediffremoved) ==
    LET parent_new1 == parent.added \ statediffremoved
        parent_removed1 == parent.removed \cup statediffremoved
        parent_removed2 == parent_removed1 \ statediffnew
        parent_new2 == parent_new1 \cup (statediffnew \ parent_removed1)
    IN  [added |-> parent_new2, removed |-> parent_removed2]

\* the fold that inserts a re-added element even when it cancels a removal
MergeIntoParent_readd(parent, statediffnew, statediffremoved) ==
    LET parent_new1 == parent.added \ statediffremoved
        parent_removed1 == parent.removed \cup (statediffremoved \ parent.added)
        parent_removed2 == parent_removed1 \ statediffnew
        parent_new2 == parent_new1 \cup statediffnew
    IN  [added |-> parent_new2, removed |-> parent_removed2]

\* the symmetric-diff fold of save_state_from_diff: the pending diff merged
\* into the popped parent's own diff
MergeIntoParent(parent, statediffnew, statediffremoved) ==
    LET parent_new1 == parent.added \ statediffremoved
        parent_removed1 == parent.removed \cup (statediffremoved \ parent.added)
        parent_removed2 == parent_removed1 \ statediffnew
        parent_new2 == parent_new1 \cup (statediffnew \ parent_removed1)
    IN  [added |-> parent_new2, removed |-> parent_removed2]

\* save_state_from_diff's size test with diffsum not squared
diff_too_big_nosquare(diffsum, diff_to_sibling, parent_diff) ==
    diffsum >= SizeFactor * diff_to_sibling * parent_diff

\* save_state_from_diff's size test with a strict comparison
diff_too_big_strict(diffsum, diff_to_sibling, parent_diff) ==
    diffsum * diffsum > SizeFactor * diff_to_sibling * parent_diff

\* save_state_from_diff: diffsum * diffsum >= 2 * diff_to_sibling * parent_diff
diff_too_big(diffsum, diff_to_sibling, parent_diff) ==
    diffsum * diffsum >= SizeFactor * diff_to_sibling * parent_diff

\* one invocation of save_state_from_diff as an observer sees it
Invocation(branch, statediffnew, statediffremoved, diff_to_sibling, parent_states) ==
    [branch |-> branch, statediffnew |-> statediffnew,
     statediffremoved |-> statediffremoved, diff_to_sibling |-> diff_to_sibling,
     parent_states |-> parent_states]

\* Service::save_state_from_diff, the merged layer handed on with the
\* caller's diff_to_sibling instead of diffsum
RECURSIVE save_state_from_diff_run_keepsibling(_, _, _, _, _, _)
save_state_from_diff_run_keepsibling(db, shortstatehash, statediffnew, statediffremoved, diff_to_sibling, parent_states) ==
    LET diffsum == Cardinality(statediffnew) + Cardinality(statediffremoved)
    IN  IF Len(parent_states) > MaxParentLayers
        THEN LET parent == Last(parent_states)
                 m == MergeIntoParent(parent, statediffnew, statediffremoved)
             IN  [save_state_from_diff_run_keepsibling(db, shortstatehash, m.added,
                      m.removed, diff_to_sibling, Front(parent_states))
                  EXCEPT !.trace.calls = <<Invocation("too_many_layers", statediffnew,
                      statediffremoved, diff_to_sibling, parent_states)>> \o @]
        ELSE IF parent_states = <<>>
        THEN [db |-> save_statediff(db, shortstatehash,
                         StateDiff(None, statediffnew, statediffremoved)),
              trace |-> [writes |-> <<shortstatehash>>,
                         calls |-> <<Invocation("root", statediffnew,
                             statediffremoved, diff_to_sibling, parent_states)>>]]
        ELSE LET parent == Last(parent_states)
                 parent_diff == Cardinality(parent.added) + Cardinality(parent.removed)
             IN  IF diff_too_big(diffsum, diff_to_sibling, parent_diff)
                 THEN LET m == MergeIntoParent(parent, statediffnew, statediffremoved)
                      IN  [save_state_from_diff_run_keepsibling(db, shortstatehash,
                               m.added, m.removed, diff_to_sibling, Front(parent_states))
                           EXCEPT !.trace.calls = <<Invocation("too_big", statediffnew,
                               statediffremoved, diff_to_sibling, parent_states)>> \o @]
                 ELSE [db |-> save_statediff(db, shortstatehash,
                                  StateDiff(parent.shortstatehash,
                                            statediffnew, statediffremoved)),
                       trace |-> [writes |-> <<shortstatehash>>,
                                  calls |-> <<Invocation("on_top", statediffnew,
                                      statediffremoved, diff_to_sibling, parent_states)>>]]

\* Service::save_state_from_diff, the folded diff also written back under the
\* popped parent's hash
RECURSIVE save_state_from_diff_run_writeback(_, _, _, _, _, _)
save_state_from_diff_run_writeback(db, shortstatehash, statediffnew, statediffremoved, diff_to_sibling, parent_states) ==
    LET diffsum == Cardinality(statediffnew) + Cardinality(statediffremoved)
    IN  IF Len(parent_states) > MaxParentLayers
        THEN LET parent == Last(parent_states)
                 m == MergeIntoParent(parent, statediffnew, statediffremoved)
             IN  [save_state_from_diff_run_writeback(db, shortstatehash, m.added, m.removed,
                                           diffsum, Front(parent_states))
                  EXCEPT !.trace.calls = <<Invocation("too_many_layers", statediffnew,
                      statediffremoved, diff_to_sibling, parent_states)>> \o @]
        ELSE IF parent_states = <<>>
        THEN [db |-> save_statediff(db, shortstatehash,
                         StateDiff(None, statediffnew, statediffremoved)),
              trace |-> [writes |-> <<shortstatehash>>,
                         calls |-> <<Invocation("root", statediffnew,
                             statediffremoved, diff_to_sibling, parent_states)>>]]
        ELSE LET parent == Last(parent_states)
                 parent_diff == Cardinality(parent.added) + Cardinality(parent.removed)
             IN  IF diff_too_big(diffsum, diff_to_sibling, parent_diff)
                 THEN LET m == MergeIntoParent(parent, statediffnew, statediffremoved)
                      IN  [save_state_from_diff_run_writeback(
                               save_statediff(db, parent.shortstatehash,
                                   StateDiff(db[parent.shortstatehash].parent,
                                             m.added, m.removed)),
                               shortstatehash, m.added, m.removed, diffsum,
                               Front(parent_states))
                           EXCEPT !.trace.calls = <<Invocation("too_big", statediffnew,
                               statediffremoved, diff_to_sibling, parent_states)>> \o @,
                                  !.trace.writes = <<parent.shortstatehash>> \o @]
                 ELSE [db |-> save_statediff(db, shortstatehash,
                                  StateDiff(parent.shortstatehash,
                                            statediffnew, statediffremoved)),
                       trace |-> [writes |-> <<shortstatehash>>,
                                  calls |-> <<Invocation("on_top", statediffnew,
                                      statediffremoved, diff_to_sibling, parent_states)>>]]

\* Service::save_state_from_diff, the record stored on top of a parent given
\* its own hash as parent
RECURSIVE save_state_from_diff_run_selfparent(_, _, _, _, _, _)
save_state_from_diff_run_selfparent(db, shortstatehash, statediffnew, statediffremoved, diff_to_sibling, parent_states) ==
    LET diffsum == Cardinality(statediffnew) + Cardinality(statediffremoved)
    IN  IF Len(parent_states) > MaxParentLayers
        THEN LET parent == Last(parent_states)
                 m == MergeIntoParent(parent, statediffnew, statediffremoved)
             IN  [save_state_from_diff_run_selfparent(db, shortstatehash, m.added, m.removed,
                                           diffsum, Front(parent_states))
                  EXCEPT !.trace.calls = <<Invocation("too_many_layers", statediffnew,
                      statediffremoved, diff_to_sibling, parent_states)>> \o @]
        ELSE IF parent_states = <<>>
        THEN [db |-> save_statediff(db, shortstatehash,
                         StateDiff(None, statediffnew, statediffremoved)),
              trace |-> [writes |-> <<shortstatehash>>,
                         calls |-> <<Invocation("root", statediffnew,
                             statediffremoved, diff_to_sibling, parent_states)>>]]
        ELSE LET parent == Last(parent_states)
                 parent_diff == Cardinality(parent.added) + Cardinality(parent.removed)
             IN  IF diff_too_big(diffsum, diff_to_sibling, parent_diff)
                 THEN LET m == MergeIntoParent(parent, statediffnew, statediffremoved)
                      IN  [save_state_from_diff_run_selfparent(db, shortstatehash, m.added,
                                                    m.removed, diffsum, Front(parent_states))
                           EXCEPT !.trace.calls = <<Invocation("too_big", statediffnew,
                               statediffremoved, diff_to_sibling, parent_states)>> \o @]
                 ELSE [db |-> save_statediff(db, shortstatehash,
                                  StateDiff(shortstatehash,
                                            statediffnew, statediffremoved)),
                       trace |-> [writes |-> <<shortstatehash>>,
                                  calls |-> <<Invocation("on_top", statediffnew,
                                      statediffremoved, diff_to_sibling, parent_states)>>]]

\* Service::save_state_from_diff: the diff store after the call, the keys it
\* wrote with save_statediff, and its invocations, the outermost first
RECURSIVE save_state_from_diff_run(_, _, _, _, _, _)
save_state_from_diff_run(db, shortstatehash, statediffnew, statediffremoved, diff_to_sibling, parent_states) ==
    LET diffsum == Cardinality(statediffnew) + Cardinality(statediffremoved)
    IN  IF Len(parent_states) > MaxParentLayers
        THEN LET parent == Last(parent_states)
                 m == MergeIntoParent(parent, statediffnew, statediffremoved)
             IN  [save_state_from_diff_run(db, shortstatehash, m.added, m.removed,
                                           diffsum, Front(parent_states))
                  EXCEPT !.trace.calls = <<Invocation("too_many_layers", statediffnew,
                      statediffremoved, diff_to_sibling, parent_states)>> \o @]
        ELSE IF parent_states = <<>>
        THEN [db |-> save_statediff(db, shortstatehash,
                         StateDiff(None, statediffnew, statediffremoved)),
              trace |-> [writes |-> <<shortstatehash>>,
                         calls |-> <<Invocation("root", statediffnew,
                             statediffremoved, diff_to_sibling, parent_states)>>]]
        ELSE LET parent == Last(parent_states)
                 parent_diff == Cardinality(parent.added) + Cardinality(parent.removed)
             IN  IF diff_too_big(diffsum, diff_to_sibling, parent_diff)
                 THEN LET m == MergeIntoParent(parent, statediffnew, statediffremoved)
                      IN  [save_state_from_diff_run(db, shortstatehash, m.added,
                                                    m.removed, diffsum, Front(parent_states))
                           EXCEPT !.trace.calls = <<Invocation("too_big", statediffnew,
                               statediffremoved, diff_to_sibling, parent_states)>> \o @]
                 ELSE [db |-> save_statediff(db, shortstatehash,
                                  StateDiff(parent.shortstatehash,
                                            statediffnew, statediffremoved)),
                       trace |-> [writes |-> <<shortstatehash>>,
                                  calls |-> <<Invocation("on_top", statediffnew,
                                      statediffremoved, diff_to_sibling, parent_states)>>]]

\* Service::save_state_from_diff; yields the diff store after the call
save_state_from_diff(db, shortstatehash, statediffnew, statediffremoved, diff_to_sibling, parent_states) ==
    save_state_from_diff_run(db, shortstatehash, statediffnew, statediffremoved,
                             diff_to_sibling, parent_states).db

\* ------------------------------------------------------ snapshot committer
NoRet == [kind |-> "none"]

\* save_state's test for an unchanged state, never taken
unchanged_state_never(new_shortstatehash, previous_shortstatehash) == FALSE

\* save_state: Some(new_shortstatehash) == previous_shortstatehash
unchanged_state(new_shortstatehash, previous_shortstatehash) ==
    new_shortstatehash = previous_shortstatehash

\* save_state's diff, the removed half taken against the new state itself
compute_statediff_noremoved(new_state_ids_compressed, states_parents) ==
    IF states_parents # <<>>
    THEN [statediffnew |-> new_state_ids_compressed \ Last(states_parents).full,
          statediffremoved |-> new_state_ids_compressed \ Last(states_parents).full]
    ELSE [statediffnew |-> new_state_ids_compressed, statediffremoved |-> {}]

\* save_state's diff, a room without a previous hash treated as unchanged
compute_statediff_nofresh(new_state_ids_compressed, states_parents) ==
    IF states_parents # <<>>
    THEN [statediffnew |-> new_state_ids_compressed \ Last(states_parents).full,
          statediffremoved |-> Last(states_parents).full \ new_state_ids_compressed]
    ELSE [statediffnew |-> {}, statediffremoved |-> {}]

\* save_state: the diff of the new state against the last parent's full state
compute_statediff(new_state_ids_compressed, states_parents) ==
    IF states_parents # <<>>
    THEN [statediffnew |-> new_state_ids_compressed \ Last(states_parents).full,
          statediffremoved |-> Last(states_parents).full \ new_state_ids_compressed]
    ELSE [statediffnew |-> new_state_ids_compressed, statediffremoved |-> {}]

\* save_state's write, the already_existed test dropped
persist_new_state_always(db, already_existed, new_shortstatehash, statediffnew, statediffremoved, states_parents) ==
    save_state_from_diff(db, new_shortstatehash, statediffnew, statediffremoved,
                         InitialDiffToSibling, states_parents)

\* save_state: the layer engine is invoked only for a newly created hash
persist_new_state(db, already_existed, new_shortstatehash, statediffnew, statediffremoved, states_parents) ==
    IF ~already_existed
    THEN save_state_from_diff(db, new_shortstatehash, statediffnew, statediffremoved,
                              InitialDiffToSibling, states_parents)
    ELSE db

\* what an observer of save_state's call of save_state_from_diff sees: the
\* invocations, the outermost first, and the keys written
NoTrace == [calls |-> <<>>, writes |-> <<>>]

layer_trace(db, already_existed, new_shortstatehash, statediffnew, statediffremoved, states_parents) ==
    IF ~already_existed
    THEN save_state_from_diff_run(db, new_shortstatehash, statediffnew, statediffremoved,
                                  InitialDiffToSibling, states_parents).trace
    ELSE NoTrace

\* save_state: the previous stack, empty for a room without a previous hash
load_states_parents(db, cache, previous_shortstatehash) ==
    IF previous_shortstatehash = None
    THEN [ok |-> TRUE, stack |-> <<>>, cache |-> cache]
    ELSE load_shortstatehash_info(db, cache, previous_shortstatehash)

\* Service::save_state as a function of the state it reads: the registry, the
\* diff store and the cache after the call, and what the call returns
save_state(db, registry, cache, previous_shortstatehash, enumeration) ==
    LET new_state_ids_compressed == Range(enumeration)
        state_hash == calculate_hash(enumeration)
        g == get_or_create_shortstatehash(registry, state_hash)
        new_shortstatehash == g.shortstatehash
        base == [registry |-> g.registry, db |-> db, cache |-> cache,
                 shortstatehash |-> new_shortstatehash,
                 already_existed |-> g.already_existed,
                 previous |-> previous_shortstatehash,
                 new |-> new_state_ids_compressed,
                 early |-> FALSE, kind |-> "ok",
                 statediffnew |-> {}, statediffremoved |-> {},
                 states_parents |-> <<>>, trace |-> NoTrace]
    IN  IF unchanged_state(new_shortstatehash, previous_shortstatehash)
        THEN [base EXCEPT !.early = TRUE]
        ELSE LET l == load_states_parents(db, cache, previous_shortstatehash)
             IN  IF ~l.ok
                 THEN [base EXCEPT !.kind = "err"]
                 ELSE LET d == compute_statediff(new_state_ids_compressed, l.stack)
                      IN  [base EXCEPT
                              !.db = persist_new_state(db, g.already_existed,
                                         new_shortstatehash, d.statediffnew,
                                         d.statediffremoved, l.stack),
                              !.cache = l.cache,
                              !.statediffnew = d.statediffnew,
                              !.statediffremoved = d.statediffremoved,
                              !.states_parents = l.stack,
                              !.trace = layer_trace(db, g.already_existed,
                                            new_shortstatehash, d.statediffnew,
                                            d.statediffremoved, l.stack)]

\* ------------------------------------------------------- sequential callers
IdleTask ==
    [pc |-> "idle", room |-> 0, enumeration |-> <<>>, previous |-> None,
     shortstatehash |-> None, already_existed |-> FALSE, early |-> FALSE,
     states_parents |-> <<>>, statediffnew |-> {}, statediffremoved |-> {},
     retried |-> FALSE, calls |-> 0,
     frames |-> <<>>, response |-> <<>>, holds |-> FALSE, touched |-> FALSE,
     failed_at |-> None]

Init ==
    /\ statediff = <<>>
    /\ shortstatehashes = <<>>
    /\ room_shortstatehash = [r \in Rooms |-> None]
    /\ stateinfo_cache = <<>>
    /\ ret = NoRet
    /\ committed = {}
    /\ task = [t \in Tasks |-> IdleTask]

RetOf(room, s) ==
    [kind |-> s.kind, room |-> room, previous |-> s.previous, new |-> s.new,
     shortstatehash |-> s.shortstatehash, already_existed |-> s.already_existed,
     early |-> s.early,
     statediffnew |-> s.statediffnew, statediffremoved |-> s.statediffremoved,
     states_parents |-> s.states_parents, trace |-> s.trace]

Commit(new_state, shortstatehash) ==
    committed \cup {[new |-> new_state, shortstatehash |-> shortstatehash]}

\* a caller commits a state set to a room and points the room at the hash
\* save_state returned
SaveState(room, enumeration) ==
    /\ MintedInOrder(shortstatehashes, Range(enumeration))
    /\ \E s \in {save_state(statediff, shortstatehashes, stateinfo_cache,
                            room_shortstatehash[room], enumeration)} :
        /\ Len(s.registry) <= MaxHashes
        /\ statediff' = s.db
        /\ shortstatehashes' = s.registry
        /\ stateinfo_cache' = s.cache
        /\ ret' = RetOf(room, s)
        /\ committed' = IF s.kind = "ok" THEN Commit(s.new, s.shortstatehash) ELSE committed
        /\ room_shortstatehash' = IF s.kind = "ok"
                                  THEN [room_shortstatehash EXCEPT ![room] = s.shortstatehash]
                                  ELSE room_shortstatehash
        /\ UNCHANGED task

\* a reader reconstructs the stack of a minted hash
LoadInfo(h) ==
    /\ h \in DOMAIN shortstatehashes
    /\ \E l \in {load_shortstatehash_info(statediff, stateinfo_cache, h)} :
        /\ l.cache # stateinfo_cache
        /\ stateinfo_cache' = l.cache
        /\ ret' = NoRet
        /\ UNCHANGED <<statediff, shortstatehashes, room_shortstatehash, committed, task>>

Next ==
    \/ \E room \in Rooms, enumeration \in Enumerations : SaveState(room, enumeration)
    \/ \E h \in Hashes : LoadInfo(h)

Spec == Init /\ [][Next]_vars

\* ------------------------------------------- save_state, one step at a time
\* line 258: the task reads the room's previous shortstatehash
T_Call(t, room, enumeration) ==
    /\ task[t].pc = "idle"
    /\ task[t].calls < MaxCalls
    /\ MintedInOrder(shortstatehashes, Range(enumeration))
    /\ task' = [task EXCEPT ![t] =
                   [IdleTask EXCEPT !.pc = "called", !.room = room,
                                    !.enumeration = enumeration,
                                    !.previous = room_shortstatehash[room],
                                    !.calls = task[t].calls + 1]]
    /\ UNCHANGED <<statediff, shortstatehashes, room_shortstatehash, stateinfo_cache,
                   ret, committed>>

\* lines 260-274: the hash is looked up or minted; an unchanged state returns
T_Mint(t) ==
    /\ task[t].pc = "called"
    /\ \E g \in {get_or_create_shortstatehash(shortstatehashes,
                                               calculate_hash(task[t].enumeration))} :
        /\ Len(g.registry) <= MaxTaskHashes
        /\ shortstatehashes' = g.registry
        /\ task' = [task EXCEPT
               ![t].pc = IF unchanged_state(g.shortstatehash, task[t].previous)
                         THEN "returned" ELSE "minted",
               ![t].early = unchanged_state(g.shortstatehash, task[t].previous),
               ![t].shortstatehash = g.shortstatehash,
               ![t].already_existed = g.already_existed]
        /\ UNCHANGED <<statediff, room_shortstatehash, stateinfo_cache, ret, committed>>

\* lines 276-294: the previous stack is loaded and the diff computed; a
\* missing diff record ends the call with an error
T_Load(t) ==
    /\ task[t].pc = "minted"
    /\ \E l \in {load_states_parents(statediff, stateinfo_cache, task[t].previous)} :
       \E d \in {compute_statediff(Range(task[t].enumeration), l.stack)} :
        /\ stateinfo_cache' = l.cache
        /\ task' = IF l.ok
                   THEN [task EXCEPT ![t].pc = "loaded",
                                     ![t].states_parents = l.stack,
                                     ![t].statediffnew = d.statediffnew,
                                     ![t].statediffremoved = d.statediffremoved]
                   ELSE [task EXCEPT ![t].pc = "failed"]
        /\ UNCHANGED <<statediff, shortstatehashes, room_shortstatehash, ret, committed>>

\* line 277: get_statediff fails with a backend error while the previous
\* stack is loaded
T_LoadBackendError(t) ==
    /\ task[t].pc = "minted"
    /\ task[t].previous # None
    /\ ~CacheContains(stateinfo_cache, task[t].previous)
    /\ task' = [task EXCEPT ![t].pc = "failed"]
    /\ UNCHANGED <<statediff, shortstatehashes, room_shortstatehash, stateinfo_cache,
                   ret, committed>>

\* the write with the parent stack of the room's hash at the time of the
\* write instead of the stack the diff was computed against
T_Write_reread(t) ==
    /\ task[t].pc = "loaded"
    /\ statediff' = persist_new_state(statediff, task[t].already_existed,
                        task[t].shortstatehash, task[t].statediffnew,
                        task[t].statediffremoved,
                        load_states_parents(statediff, stateinfo_cache,
                            room_shortstatehash[task[t].room]).stack)
    /\ task' = [task EXCEPT ![t].pc = "returned", ![t].states_parents = <<>>]
    /\ UNCHANGED <<shortstatehashes, room_shortstatehash, stateinfo_cache, ret, committed>>

\* lines 296-306: the record is written for a newly created hash; Ok is returned
T_Write(t) ==
    /\ task[t].pc = "loaded"
    /\ statediff' = persist_new_state(statediff, task[t].already_existed,
                        task[t].shortstatehash, task[t].statediffnew,
                        task[t].statediffremoved, task[t].states_parents)
    /\ task' = [task EXCEPT ![t].pc = "returned", ![t].states_parents = <<>>]
    /\ UNCHANGED <<shortstatehashes, room_shortstatehash, stateinfo_cache, ret, committed>>

\* the caller takes the result: after Ok it points the room at the returned
\* hash, after an error it gives up
T_Return(t) ==
    /\ task[t].pc \in {"returned", "failed"}
    /\ IF task[t].pc = "returned"
       THEN /\ room_shortstatehash' =
                   [room_shortstatehash EXCEPT ![task[t].room] = task[t].shortstatehash]
            /\ committed' = Commit(Range(task[t].enumeration), task[t].shortstatehash)
       ELSE UNCHANGED <<room_shortstatehash, committed>>
    /\ task' = [task EXCEPT ![t] = [IdleTask EXCEPT !.calls = task[t].calls]]
    /\ UNCHANGED <<statediff, shortstatehashes, stateinfo_cache, ret>>

\* the caller retries the whole save_state with the same room and state set
T_Retry(t) ==
    /\ task[t].pc = "failed"
    /\ ~task[t].retried
    /\ task' = [task EXCEPT ![t] =
                   [IdleTask EXCEPT !.pc = "called", !.room = task[t].room,
                                    !.enumeration = task[t].enumeration,
                                    !.previous = room_shortstatehash[task[t].room],
                                    !.retried = TRUE,
                                    !.calls = task[t].calls]]
    /\ UNCHANGED <<statediff, shortstatehashes, room_shortstatehash, stateinfo_cache,
                   ret, committed>>

\* tasks commit concurrently, no backend failures
NextConc ==
    \/ \E t \in Tasks, room \in Rooms, enumeration \in Enumerations :
           T_Call(t, room, enumeration)
    \/ \E t \in Tasks : T_Mint(t)
    \/ \E t \in Tasks : T_Load(t)
    \/ \E t \in Tasks : T_Write(t)
    \/ \E t \in Tasks : T_Return(t)

SpecConc == Init /\ [][NextConc]_vars

\* the state sets a serial caller committed to the room, one save_state after
\* the other, before the tasks start: a chain of four layers
WarmEnumerations == <<<<1, 2>>, <<1>>, <<1, 3>>, <<3>>>>

RECURSIVE Warm(_)
Warm(k) ==
    IF k = 0
    THEN [db |-> <<>>, registry |-> <<>>, cache |-> <<>>, shortstatehash |-> None,
          committed |-> {}]
    ELSE LET w == Warm(k - 1)
             s == save_state(w.db, w.registry, w.cache, w.shortstatehash,
                             WarmEnumerations[k])
         IN  [db |-> s.db, registry |-> s.registry, cache |-> s.cache,
              shortstatehash |-> s.shortstatehash,
              committed |-> w.committed \cup
                  {[new |-> s.new, shortstatehash |-> s.shortstatehash]}]

InitRace ==
    \E w \in {Warm(Len(WarmEnumerations))} :
        /\ statediff = w.db
        /\ shortstatehashes = w.registry
        /\ room_shortstatehash = [r \in Rooms |-> w.shortstatehash]
        /\ stateinfo_cache = w.cache
        /\ ret = NoRet
        /\ committed = w.committed
        /\ task = [t \in Tasks |-> IdleTask]

\* tasks commit concurrently to a room whose chain is four layers deep
SpecRace == InitRace /\ [][NextConc]_vars

\* one caller, backend failures while loading, retries
NextRetry ==
    \/ \E room \in Rooms, enumeration \in Enumerations : T_Call(1, room, enumeration)
    \/ T_Mint(1)
    \/ T_Load(1)
    \/ T_LoadBackendError(1)
    \/ T_Write(1)
    \/ T_Return(1)
    \/ T_Retry(1)

SpecRetry == Init /\ [][NextRetry]_vars

\* ------------------------------ load_shortstatehash_info, one step at a time
\* task[t].frames are the nested calls of load_shortstatehash_info a task is
\* in, the innermost last; task[t].holds tells whether the task holds the
\* guard of the stateinfo_cache mutex; task[t].touched whether the outermost
\* call has changed the cache; task[t].response is the latest stack built;
\* task[t].failed_at the hash whose get_statediff failed
NoDiff == [parent |-> None, added |-> {}, removed |-> {}]

Frame(shortstatehash, stage) ==
    [shortstatehash |-> shortstatehash, stage |-> stage, diff |-> NoDiff]

Top(t) == Last(task[t].frames)

WithTop(tk, frame) == [tk EXCEPT !.frames = Append(Front(tk.frames), frame)]

\* the innermost call returns Ok(response): the task is done, or the caller
\* pushes its own element (lines 74-82)
Returned(tk, response) ==
    LET rest == Front(tk.frames)
    IN  IF rest = <<>>
        THEN [tk EXCEPT !.pc = "load_returned", !.frames = <<>>, !.response = response]
        ELSE LET caller == Last(rest)
                 state == (Last(response).full \cup caller.diff.added) \ caller.diff.removed
             IN  [tk EXCEPT
                     !.frames = Append(Front(rest), [caller EXCEPT !.stage = "built"]),
                     !.response = Append(response,
                         StackEntry(caller.shortstatehash, state,
                                    caller.diff.added, caller.diff.removed))]

\* a reader calls load_shortstatehash_info
L_Call(t, shortstatehash) ==
    /\ task[t].pc = "idle"
    /\ task' = [task EXCEPT ![t] =
                   [IdleTask EXCEPT !.pc = "loading", !.shortstatehash = shortstatehash,
                                    !.frames = <<Frame(shortstatehash, "enter")>>,
                                    !.calls = task[t].calls]]
    /\ UNCHANGED <<statediff, shortstatehashes, room_shortstatehash, stateinfo_cache,
                   ret, committed>>

\* lines 59-61 and 84-86, 91-93: stateinfo_cache.lock(); a task that already
\* holds the guard blocks on itself for ever
L_Acquire(t) ==
    /\ task[t].pc = "loading"
    /\ Top(t).stage \in {"enter", "built"}
    /\ IF task[t].holds
       THEN task' = [task EXCEPT ![t].pc = "deadlocked"]
       ELSE /\ \A u \in Tasks : ~task[u].holds
            /\ task' = [task EXCEPT ![t] =
                   WithTop([task[t] EXCEPT !.holds = TRUE],
                           [Top(t) EXCEPT !.stage =
                                IF Top(t).stage = "enter" THEN "lookup" ELSE "insert"])]
    /\ UNCHANGED <<statediff, shortstatehashes, room_shortstatehash, stateinfo_cache,
                   ret, committed>>

\* line 58-65 with the guard kept after a miss, as when the rest of the
\* function sits in the else branch of the if let
L_Lookup_keepguard(t) ==
    /\ task[t].pc = "loading"
    /\ Top(t).stage = "lookup"
    /\ IF CacheContains(stateinfo_cache, Top(t).shortstatehash)
       THEN \E g \in {CacheGetMut(stateinfo_cache, Top(t).shortstatehash)} :
                /\ stateinfo_cache' = g.cache
                /\ task' = [task EXCEPT ![t] =
                       Returned([task[t] EXCEPT !.holds = FALSE, !.touched = TRUE],
                                g.value)]
       ELSE /\ stateinfo_cache' = stateinfo_cache
            /\ task' = [task EXCEPT ![t] =
                   WithTop(task[t], [Top(t) EXCEPT !.stage = "fetch"])]
    /\ UNCHANGED <<statediff, shortstatehashes, room_shortstatehash, ret, committed>>

\* lines 58-65: get_mut under the guard; a hit returns a clone of the cached
\* stack; the guard is dropped at the end of the if let
L_Lookup(t) ==
    /\ task[t].pc = "loading"
    /\ Top(t).stage = "lookup"
    /\ IF CacheContains(stateinfo_cache, Top(t).shortstatehash)
       THEN \E g \in {CacheGetMut(stateinfo_cache, Top(t).shortstatehash)} :
                /\ stateinfo_cache' = g.cache
                /\ task' = [task EXCEPT ![t] =
                       Returned([task[t] EXCEPT !.holds = FALSE, !.touched = TRUE],
                                g.value)]
       ELSE /\ stateinfo_cache' = stateinfo_cache
            /\ task' = [task EXCEPT ![t] =
                   WithTop([task[t] EXCEPT !.holds = FALSE],
                           [Top(t) EXCEPT !.stage = "fetch"])]
    /\ UNCHANGED <<statediff, shortstatehashes, room_shortstatehash, ret, committed>>

\* lines 67-73, 90: get_statediff; NotFound ends every nested call with the
\* error; a record with a parent makes the nested call for the parent, for
\* which the call stack may have no room left; a root builds its stack
L_Fetch(t) ==
    /\ task[t].pc = "loading"
    /\ Top(t).stage = "fetch"
    /\ IF ~has_statediff(statediff, Top(t).shortstatehash)
       THEN task' = [task EXCEPT ![t].pc = "load_failed", ![t].frames = <<>>,
                                 ![t].response = <<>>, ![t].holds = FALSE,
                                 ![t].failed_at = Top(t).shortstatehash]
       ELSE \E d \in {get_statediff(statediff, Top(t).shortstatehash)} :
            IF d.parent # None
            THEN IF Len(task[t].frames) >= MaxFrames
                 THEN task' = [task EXCEPT ![t].pc = "overflow"]
                 ELSE task' = [task EXCEPT ![t].frames =
                          Append(Append(Front(task[t].frames),
                                        [Top(t) EXCEPT !.stage = "awaiting", !.diff = d]),
                                 Frame(d.parent, "enter"))]
            ELSE task' = [task EXCEPT ![t] =
                     WithTop([task[t] EXCEPT !.response =
                                  <<StackEntry(Top(t).shortstatehash, d.added,
                                               d.added, d.removed)>>],
                             [Top(t) EXCEPT !.stage = "built", !.diff = d])]
    /\ UNCHANGED <<statediff, shortstatehashes, room_shortstatehash, stateinfo_cache,
                   ret, committed>>

\* a backend error of get_statediff that also empties the stack cache
L_FetchBackendError_clear(t) ==
    /\ task[t].pc = "loading"
    /\ Top(t).stage = "fetch"
    /\ stateinfo_cache' = <<>>
    /\ task' = [task EXCEPT ![t].pc = "load_failed", ![t].frames = <<>>,
                            ![t].response = <<>>, ![t].holds = FALSE,
                            ![t].touched = (stateinfo_cache # <<>>),
                            ![t].failed_at = Top(t).shortstatehash]
    /\ UNCHANGED <<statediff, shortstatehashes, room_shortstatehash, ret, committed>>

\* line 71: get_statediff fails with a backend error
L_FetchBackendError(t) ==
    /\ task[t].pc = "loading"
    /\ Top(t).stage = "fetch"
    /\ task' = [task EXCEPT ![t].pc = "load_failed", ![t].frames = <<>>,
                            ![t].response = <<>>, ![t].holds = FALSE,
                            ![t].failed_at = Top(t).shortstatehash]
    /\ UNCHANGED <<statediff, shortstatehashes, room_shortstatehash, stateinfo_cache,
                   ret, committed>>

\* lines 84-89, 91-96: the stack is inserted under the guard and returned
L_Insert(t) ==
    /\ task[t].pc = "loading"
    /\ Top(t).stage = "insert"
    /\ stateinfo_cache' = CacheInsert(stateinfo_cache, Top(t).shortstatehash,
                                      task[t].response)
    /\ task' = [task EXCEPT ![t] =
           Returned([task[t] EXCEPT !.holds = FALSE, !.touched = TRUE],
                    task[t].response)]
    /\ UNCHANGED <<statediff, shortstatehashes, room_shortstatehash, ret, committed>>

\* the reader takes the result
L_Return(t) ==
    /\ task[t].pc \in {"load_returned", "load_failed"}
    /\ task' = [task EXCEPT ![t] = [IdleTask EXCEPT !.calls = task[t].calls]]
    /\ UNCHANGED <<statediff, shortstatehashes, room_shortstatehash, stateinfo_cache,
                   ret, committed>>

\* readers load stacks concurrently from a store four layers deep; the
\* backend may fail
NextLoad ==
    \/ \E t \in Tasks, h \in Hashes : L_Call(t, h)
    \/ \E t \in Tasks : L_Acquire(t)
    \/ \E t \in Tasks : L_Lookup(t)
    \/ \E t \in Tasks : L_Fetch(t)
    \/ \E t \in Tasks : L_FetchBackendError(t)
    \/ \E t \in Tasks : L_Insert(t)
    \/ \E t \in Tasks : L_Return(t)

SpecLoad == InitRace /\ [][NextLoad]_vars

\* a corrupted store: the four-layer chain with the parent link of one record
\* overwritten by the hash of a stored record, which may close a cycle; the
\* cache is the empty one of a server that has just started
InitCorrupt ==
    \E w \in {Warm(Len(WarmEnumerations))} :
        /\ \E h \in DOMAIN w.db, p \in DOMAIN w.db :
               statediff = [w.db EXCEPT ![h].parent = p]
        /\ shortstatehashes = w.registry
        /\ room_shortstatehash = [r \in Rooms |-> w.shortstatehash]
        /\ stateinfo_cache = <<>>
        /\ ret = NoRet
        /\ committed = w.committed
        /\ task = [t \in Tasks |-> IdleTask]

\* one reader loads stacks
NextLoadOne ==
    \/ \E h \in Hashes : L_Call(1, h)
    \/ L_Acquire(1)
    \/ L_Lookup(1)
    \/ L_Fetch(1)
    \/ L_Insert(1)
    \/ L_Return(1)

SpecCorrupt == InitCorrupt /\ [][NextLoadOne]_vars

\* ----------------------------------------------------- compressed-event codec
\* the u64 values the codec is applied to; every value is below 2^31 and so
\* has four leading zero bytes
U64Samples == <<0, 1, 255, 256, 65537, 2147483647>>

\* short event ids the registry minted for the event ids, in the order of
\* EventIds
EventIds == <<"$a", "$b", "$c">>

ShortEventIds == <<1, 258, 16777216>>

get_or_create_shorteventid(event_id) ==
    ShortEventIds[CHOOSE i \in DOMAIN EventIds : EventIds[i] = event_id]

get_eventid_from_short(shorteventid) ==
    EventIds[CHOOSE i \in DOMAIN ShortEventIds : ShortEventIds[i] = shorteventid]

\* u64::to_le_bytes
RECURSIVE to_le_bytes(_, _)
to_le_bytes(n, len) ==
    IF len = 0 THEN <<>> ELSE <<n % 256>> \o to_le_bytes(n \div 256, len - 1)

\* u64::to_be_bytes, for a word of len bytes
RECURSIVE to_be_bytes(_, _)
to_be_bytes(n, len) ==
    IF len = 0 THEN <<>> ELSE Append(to_be_bytes(n \div 256, len - 1), n % 256)

\* utils::u64_from_bytes
RECURSIVE u64_from_bytes(_)
u64_from_bytes(bytes) ==
    IF bytes = <<>> THEN 0 ELSE u64_from_bytes(Front(bytes)) * 256 + Last(bytes)

\* compress_state_event, the two words laid out little-endian
compress_state_event_le(shortstatekey, event_id) ==
    to_le_bytes(shortstatekey, U64Size)
        \o to_le_bytes(get_or_create_shorteventid(event_id), U64Size)

\* Service::compress_state_event
compress_state_event(shortstatekey, event_id) ==
    to_be_bytes(shortstatekey, U64Size)
        \o to_be_bytes(get_or_create_shorteventid(event_id), U64Size)

\* Service::parse_compressed_state_event
parse_compressed_state_event(compressed_event) ==
    <<u64_from_bytes(SubSeq(compressed_event, 1, U64Size)),
      get_eventid_from_short(
          u64_from_bytes(SubSeq(compressed_event, U64Size + 1, Len(compressed_event))))>>

\* two (shortstatekey, event id) pairs are given to the codec
InitCodec ==
    /\ statediff = <<>>
    /\ shortstatehashes = <<>>
    /\ room_shortstatehash = [r \in Rooms |-> None]
    /\ stateinfo_cache = <<>>
    /\ committed = {}
    /\ task = [t \in Tasks |-> IdleTask]
    /\ \E k1, k2 \in Range(U64Samples), e1, e2 \in Range(EventIds) :
           ret = [kind |-> "codec_args",
                  pairs |-> <<<<k1, e1>>, <<k2, e2>>>>,
                  compressed |-> <<>>, parsed |-> <<>>]

Compress ==
    /\ ret.kind = "codec_args"
    /\ ret' = [ret EXCEPT !.kind = "compressed",
                          !.compressed = [i \in DOMAIN ret.pairs |->
                              compress_state_event(ret.pairs[i][1], ret.pairs[i][2])]]
    /\ UNCHANGED <<statediff, shortstatehashes, room_shortstatehash, stateinfo_cache,
                   committed, task>>

Parse ==
    /\ ret.kind = "compressed"
    /\ ret' = [ret EXCEPT !.kind = "parsed",
                          !.parsed = [i \in DOMAIN ret.compressed |->
                              parse_compressed_state_event(ret.compressed[i])]]
    /\ UNCHANGED <<statediff, shortstatehashes, room_shortstatehash, stateinfo_cache,
                   committed, task>>

NextCodec == Compress \/ Parse

SpecCodec == InitCodec /\ [][NextCodec]_vars

\* ------------------------------------------------------ symmetric-diff fold
\* the diffs (added, removed) that are exact relative to a base set
ExactDiffs(base) ==
    {[added |-> a, removed |-> r] : a \in SUBSET (Events \ base), r \in SUBSET base}

ApplyDiff(base, diff) == (base \cup diff.added) \ diff.removed

\* a grandparent's full state, the popped parent's diff relative to it and the
\* pending diff relative to the parent's full state
InitFold ==
    /\ statediff = <<>>
    /\ shortstatehashes = <<>>
    /\ room_shortstatehash = [r \in Rooms |-> None]
    /\ stateinfo_cache = <<>>
    /\ committed = {}
    /\ task = [t \in Tasks |-> IdleTask]
    /\ \E grandparent \in SUBSET Events :
       \E parent \in ExactDiffs(grandparent) :
       \E child \in ExactDiffs(ApplyDiff(grandparent, parent)) :
           ret = [kind |-> "fold_args", grandparent |-> grandparent,
                  parent |-> parent, child |-> child, folded |-> <<>>]

\* save_state_from_diff pops the parent and folds the pending diff into it
Fold ==
    /\ ret.kind = "fold_args"
    /\ ret' = [ret EXCEPT
           !.kind = "folded",
           !.folded = MergeIntoParent(
               StackEntry(None, ApplyDiff(ret.grandparent, ret.parent),
                          ret.parent.added, ret.parent.removed),
               ret.child.added, ret.child.removed)]
    /\ UNCHANGED <<statediff, shortstatehashes, room_shortstatehash, stateinfo_cache,
                   committed, task>>

NextFold == Fold

SpecFold == InitFold /\ [][NextFold]_vars

\* =============================================================== properties
\* the stack of h obtained by walking the stored diff records, no cache involved
RECURSIVE StoredStack(_, _)
StoredStack(db, h) ==
    LET d == db[h]
    IN  IF d.parent = None
        THEN <<StackEntry(h, d.added, d.added, d.removed)>>
        ELSE LET p == StoredStack(db, d.parent)
             IN  Append(p, StackEntry(h, (Last(p).full \cup d.added) \ d.removed,
                                      d.added, d.removed))

FullOf(db, h) == Last(StoredStack(db, h)).full

\* the latest step was a save_state call that wrote the record of a new hash
RetWrote == ret.kind = "ok" /\ ~ret.early /\ ~ret.already_existed

\* ... and stored it after merging at least one parent layer
RetMerged ==
    /\ RetWrote
    /\ ret.previous # None
    /\ statediff[ret.shortstatehash].parent # ret.previous

\* C1: for every hash a successful save_state returned, the last element of
\* load_shortstatehash_info has a full state equal to the state set supplied
\* to that call.
C1_FullIsSupplied ==
    \A c \in committed :
        LET l == load_shortstatehash_info(statediff, stateinfo_cache, c.shortstatehash)
        IN  l.ok /\ Last(l.stack).full = c.new

\* a record stored after a cascade of two merges: the parent stack had four
\* layers and the record sits at most on the second
C1_Witness ==
    /\ RetMerged
    /\ Len(StoredStack(statediff, ret.previous)) = 4
    /\ Len(StoredStack(statediff, ret.shortstatehash)) <= 3
    /\ FullOf(statediff, ret.shortstatehash) = ret.new

\* C2: the parent chain of every stored hash, the hash included, has at most
\* 4 elements, and load_shortstatehash_info returns no longer stack.
C2_ChainAtMostFour ==
    \A h \in DOMAIN statediff :
        /\ Len(StoredStack(statediff, h)) <= 4
        /\ Len(load_shortstatehash_info(statediff, stateinfo_cache, h).stack) <= 4

\* a commit on top of a chain of length 4 stored its record
C2_Witness ==
    /\ RetWrote
    /\ ret.previous # None
    /\ Len(StoredStack(statediff, ret.previous)) = 4
    /\ has_statediff(statediff, ret.shortstatehash)

\* C3: for every stored non-root record, added and removed are disjoint,
\* added holds no element of the parent's full state and removed is a subset
\* of the parent's full state.
C3_DiffsRelativeToParent ==
    \A h \in DOMAIN statediff :
        LET d == statediff[h]
        IN  d.parent # None =>
                /\ d.added \cap d.removed = {}
                /\ d.added \cap FullOf(statediff, d.parent) = {}
                /\ d.removed \subseteq FullOf(statediff, d.parent)

\* a non-root record produced by a merge, with both halves non-empty
C3_Witness ==
    /\ RetMerged
    /\ statediff[ret.shortstatehash].parent # None
    /\ statediff[ret.shortstatehash].added # {}
    /\ statediff[ret.shortstatehash].removed # {}

\* C4: no step changes a stored record or the stack loaded for a stored
\* hash; a step that writes writes one record, under the hash save_state
\* returns, and only when the registry reported that hash as newly created.
C4_StoredNeverChanges ==
    [][/\ \A h \in DOMAIN statediff :
              /\ h \in DOMAIN statediff'
              /\ statediff'[h] = statediff[h]
              /\ load_shortstatehash_info(statediff', stateinfo_cache', h).stack
                     = load_shortstatehash_info(statediff, stateinfo_cache, h).stack
       /\ statediff' # statediff =>
              /\ ret'.kind = "ok"
              /\ ~ret'.already_existed
              /\ DOMAIN statediff' = DOMAIN statediff \cup {ret'.shortstatehash}]_vars

\* a commit that rebalanced while three earlier records were stored
C4_Witness ==
    /\ RetMerged
    /\ Cardinality(DOMAIN statediff) >= 4

\* C5: a task to which save_state has returned Ok holds a hash that has a
\* stored diff record.
C5_ReturnedHasRecord ==
    \A t \in Tasks :
        (task[t].pc = "returned") => has_statediff(statediff, task[t].shortstatehash)

\* C6: a retried save_state that has returned Ok holds a hash whose stored
\* record reconstructs the supplied state set.
C6_RetrySafe ==
    \A t \in Tasks :
        (task[t].pc = "returned" /\ task[t].retried) =>
            /\ has_statediff(statediff, task[t].shortstatehash)
            /\ FullOf(statediff, task[t].shortstatehash) = Range(task[t].enumeration)

C8_ReturnedDiff ==
    (ret.kind = "ok" /\ ret.shortstatehash # ret.previous) =>
        LET previous_full == IF ret.previous = None
                             THEN {}
                             ELSE FullOf(statediff, ret.previous)
        IN  /\ ret.statediffnew = ret.new \ previous_full
            /\ ret.statediffremoved = previous_full \ ret.new
            /\ (previous_full \cup ret.statediffnew) \ ret.statediffremoved = ret.new

\* the hash already existed and the stored record of it is not the returned diff
C8_Witness ==
    /\ ret.kind = "ok"
    /\ ret.already_existed
    /\ ~ret.early
    /\ ret.previous # None
    /\ ret.statediffnew # {}
    /\ ret.statediffremoved # {}
    /\ statediff[ret.shortstatehash].added # ret.statediffnew

\* C9: a save_state call that obtains the room's previous hash returns that
\* hash with two empty sets, and changes neither the diff store nor the
\* stack cache.
C9_UnchangedStateIsNoop ==
    [][(ret'.kind # "none" /\ ret'.shortstatehash = ret'.previous) =>
           /\ ret'.kind = "ok"
           /\ ret'.statediffnew = {}
           /\ ret'.statediffremoved = {}
           /\ statediff' = statediff
           /\ stateinfo_cache' = stateinfo_cache]_vars

\* the state was committed again while the cache held another hash's stack
C9_Witness ==
    /\ ret.kind = "ok"
    /\ ret.early
    /\ ret.shortstatehash = ret.previous
    /\ stateinfo_cache # <<>>
    /\ ~CacheContains(stateinfo_cache, ret.previous)

\* C10: for every stored hash and every reachable cache,
\* load_shortstatehash_info returns the stack obtained by walking the stored
\* records without a cache.
C10_CacheCoherent ==
    \A h \in DOMAIN statediff :
        LET l == load_shortstatehash_info(statediff, stateinfo_cache, h)
        IN  l.ok /\ l.stack = StoredStack(statediff, h)

\* the cache holds the stack of a hash three layers deep, its ancestors evicted
C10_Witness ==
    \E h \in DOMAIN statediff :
        /\ CacheContains(stateinfo_cache, h)
        /\ Len(StoredStack(statediff, h)) >= 3
        /\ ~CacheContains(stateinfo_cache, statediff[h].parent)

\* C11: while tasks race through save_state on one room, every stored record
\* has a stored parent or none, a chain of at most 4 elements, a full state
\* equal to the set its hash was minted for and to (full(P) \cup added) \
\* removed, and, when it is not a root, added and removed disjoint, added
\* disjoint from the parent's full state and removed inside it.
C11_RacingKeepsInvariants ==
    \A h \in DOMAIN statediff :
        LET d == statediff[h]
        IN  IF d.parent = None
            THEN FullOf(statediff, h) = Range(shortstatehashes[h])
            ELSE /\ has_statediff(statediff, d.parent)
                 /\ Len(StoredStack(statediff, h)) <= 4
                 /\ FullOf(statediff, h) = Range(shortstatehashes[h])
                 /\ Last(load_shortstatehash_info(statediff, stateinfo_cache, h).stack).full
                        = (FullOf(statediff, d.parent) \cup d.added) \ d.removed
                 /\ d.added \cap d.removed = {}
                 /\ d.added \cap FullOf(statediff, d.parent) = {}
                 /\ d.removed \subseteq FullOf(statediff, d.parent)

\* both tasks read the same previous hash, four layers deep, each minted a
\* hash of its own and each has written its record
C11_Witness ==
    /\ \A t \in Tasks : /\ task[t].pc = "returned"
                        /\ ~task[t].already_existed
                        /\ ~task[t].early
                        /\ has_statediff(statediff, task[t].shortstatehash)
    /\ task[1].previous = task[2].previous
    /\ task[1].previous # None
    /\ Len(StoredStack(statediff, task[1].previous)) = 4
    /\ task[1].shortstatehash # task[2].shortstatehash

\* C12: every stored record without a parent has an empty removed set and an
\* added set equal to the full state its hash stands for, and its loaded
\* stack is that one element.
C12_RootHoldsFullState ==
    \A h \in DOMAIN statediff :
        statediff[h].parent = None =>
            /\ statediff[h].removed = {}
            /\ statediff[h].added = Range(shortstatehashes[h])
            /\ load_shortstatehash_info(statediff, stateinfo_cache, h).stack
                   = <<StackEntry(h, Range(shortstatehashes[h]),
                                  Range(shortstatehashes[h]), {})>>

\* a root produced by merging every parent layer away, next to the root the
\* room started with
C12_Witness ==
    /\ RetMerged
    /\ statediff[ret.shortstatehash].parent = None
    /\ ret.statediffremoved # {}
    /\ \E h \in DOMAIN statediff : h # ret.shortstatehash /\ statediff[h].parent = None

\* C13: a save_state that read no previous hash for its room and minted a
\* new hash returns added equal to the whole supplied set and removed empty,
\* and has stored the hash as a root holding that set, whose loaded stack has
\* exactly one element.
C13_FreshRoomStoresRoot ==
    \A t \in Tasks :
        (/\ task[t].pc = "returned"
         /\ task[t].previous = None
         /\ ~task[t].already_existed) =>
            LET h == task[t].shortstatehash
                new == Range(task[t].enumeration)
            IN  /\ task[t].statediffnew = new
                /\ task[t].statediffremoved = {}
                /\ has_statediff(statediff, h)
                /\ statediff[h] = StateDiff(None, new, {})
                /\ load_shortstatehash_info(statediff, stateinfo_cache, h).stack
                       = <<StackEntry(h, new, new, {})>>

\* a task returns from such a call while the store already holds the record
\* of another hash
C13_Witness ==
    \E t \in Tasks :
        /\ task[t].pc = "returned"
        /\ task[t].previous = None
        /\ ~task[t].already_existed
        /\ Cardinality(task[t].statediffnew) = MaxStateSize
        /\ \E h \in DOMAIN statediff : h # task[t].shortstatehash

\* byte p of n counted from the least significant one, for n below 2^31
ByteOf(n, p) == IF p >= 4 THEN 0 ELSE (n \div 256^p) % 256

\* C14: compress_state_event yields 16 bytes, the big-endian shortstatekey
\* followed by the big-endian short event id; distinct (shortstatekey, short
\* event id) pairs yield distinct bytes; parse_compressed_state_event gives
\* back the shortstatekey and the event id.
C14_CodecRoundTrips ==
    /\ ret.kind \in {"compressed", "parsed"} =>
           /\ \A i \in DOMAIN ret.pairs :
                  /\ Len(ret.compressed[i]) = 16
                  /\ \A b \in 1..8 :
                         /\ ret.compressed[i][b] = ByteOf(ret.pairs[i][1], 8 - b)
                         /\ ret.compressed[i][8 + b] =
                                ByteOf(get_or_create_shorteventid(ret.pairs[i][2]), 8 - b)
           /\ ret.pairs[1] # ret.pairs[2] => ret.compressed[1] # ret.compressed[2]
    /\ ret.kind = "parsed" => ret.parsed = ret.pairs

\* two pairs that differ in both halves, with values of more than one
\* non-zero byte, were compressed and parsed
C14_Witness ==
    /\ ret.kind = "parsed"
    /\ ret.pairs[1][1] = 65537
    /\ ret.pairs[2][1] = 2147483647
    /\ ret.pairs[1][2] = "$b"
    /\ ret.pairs[2][2] = "$c"

\* the latest step was a save_state call that wrote a record for a room whose
\* previous state was a single root layer
RetOnRoot ==
    /\ RetWrote
    /\ Len(ret.states_parents) = 1

RetDiffsum == Cardinality(ret.statediffnew) + Cardinality(ret.statediffremoved)

\* C15: a commit on a single root layer whose diffsum squared is at least
\* 2 * 2 * parent_diff is not stored with the previous hash as parent: the
\* root is folded into the diff and the record is stored as a root holding
\* the whole new state, its chain one element long.
C15_SizeCascadeFromRoot ==
    (/\ RetOnRoot
     /\ RetDiffsum * RetDiffsum >=
            2 * 2 * (Cardinality(ret.states_parents[1].added)
                     + Cardinality(ret.states_parents[1].removed))) =>
        /\ statediff[ret.shortstatehash].parent # ret.previous
        /\ statediff[ret.shortstatehash] = StateDiff(None, ret.new, {})
        /\ Len(StoredStack(statediff, ret.shortstatehash)) = 1

\* such a commit at the edge of the test: diffsum squared equal to
\* 2 * 2 * parent_diff
C15_Witness ==
    /\ RetOnRoot
    /\ RetDiffsum * RetDiffsum =
           2 * 2 * (Cardinality(ret.states_parents[1].added)
                    + Cardinality(ret.states_parents[1].removed))
    /\ statediff[ret.shortstatehash].parent = None
    /\ ret.statediffremoved # {}

\* the invocations of save_state_from_diff made by the latest save_state
RetCalls == IF ret.kind = "ok" THEN ret.trace.calls ELSE <<>>

DiffsumOf(c) == Cardinality(c.statediffnew) + Cardinality(c.statediffremoved)

ParentDiffOf(c) ==
    Cardinality(Last(c.parent_states).added) + Cardinality(Last(c.parent_states).removed)

\* the diff of c folded into the last element of its parent stack, as sets
FoldedOf(c) ==
    LET p == Last(c.parent_states)
    IN  [added |-> (p.added \ c.statediffremoved) \cup (c.statediffnew \ p.removed),
         removed |-> (p.removed \ c.statediffnew) \cup (c.statediffremoved \ p.added)]

\* scenario S3: the root {c1, c2, c3} is committed to a new room, then
\* {c1, c2, c4}
ScenarioS3 ==
    LET s1 == save_state(<<>>, <<>>, <<>>, None, <<1, 2, 3>>)
    IN  save_state(s1.db, s1.registry, s1.cache, s1.shortstatehash, <<1, 2, 4>>)

\* C16: an invocation of save_state_from_diff with a parent stack of 1 to 3
\* elements stores the record on top of the last element, with the added and
\* removed sets it was given, exactly when diffsum squared is below
\* 2 * diff_to_sibling * parent_diff; otherwise it invokes itself with the
\* stack without that element and the folded diff, and the record is not
\* stored on that element. In scenario S3 the record has parent H_1, added
\* {c4} and removed {c3}.
C16_SizeTestDecides ==
    /\ \A i \in DOMAIN RetCalls :
           LET c == RetCalls[i]
               h == ret.shortstatehash
           IN  Len(c.parent_states) \in 1..3 =>
                   IF DiffsumOf(c) * DiffsumOf(c)
                          < 2 * c.diff_to_sibling * ParentDiffOf(c)
                   THEN /\ i = Len(RetCalls)
                        /\ statediff[h] = StateDiff(Last(c.parent_states).shortstatehash,
                                                    c.statediffnew, c.statediffremoved)
                   ELSE /\ i < Len(RetCalls)
                        /\ RetCalls[i + 1].parent_states = Front(c.parent_states)
                        /\ RetCalls[i + 1].statediffnew = FoldedOf(c).added
                        /\ RetCalls[i + 1].statediffremoved = FoldedOf(c).removed
                        /\ statediff[h].parent # Last(c.parent_states).shortstatehash
    /\ ScenarioS3.db[2] = StateDiff(1, {4}, {3})
    /\ Len(StoredStack(ScenarioS3.db, 2)) = 2

\* one save_state met both outcomes: an invocation with three parents failed
\* the test and the next one, with a diff_to_sibling other than 2, passed it
C16_Witness ==
    \E i \in DOMAIN RetCalls :
        /\ i < Len(RetCalls)
        /\ Len(RetCalls[i].parent_states) = 3
        /\ RetCalls[i].branch = "too_big"
        /\ RetCalls[i + 1].branch = "on_top"
        /\ RetCalls[i + 1].diff_to_sibling # 2

\* C17: an invocation of save_state_from_diff with more than 3 parents never
\* is the last one, whatever the size test would say: the next invocation has
\* the stack without its last element, the folded diff, and a diff_to_sibling
\* equal to the size of the diff before folding; the record is not stored
\* with the fourth stack element as parent.
C17_DepthOverrunMerges ==
    \A i \in DOMAIN RetCalls :
        LET c == RetCalls[i]
        IN  Len(c.parent_states) > 3 =>
                /\ i < Len(RetCalls)
                /\ RetCalls[i + 1].parent_states = Front(c.parent_states)
                /\ RetCalls[i + 1].statediffnew = FoldedOf(c).added
                /\ RetCalls[i + 1].statediffremoved = FoldedOf(c).removed
                /\ RetCalls[i + 1].diff_to_sibling = DiffsumOf(c)
                /\ statediff[ret.shortstatehash].parent # c.parent_states[4].shortstatehash

\* a commit on a chain of four whose diff would have passed the size test,
\* with a diffsum other than the diff_to_sibling it was given
C17_Witness ==
    /\ RetCalls # <<>>
    /\ Len(RetCalls[1].parent_states) = 4
    /\ DiffsumOf(RetCalls[1]) * DiffsumOf(RetCalls[1])
           < 2 * RetCalls[1].diff_to_sibling * ParentDiffOf(RetCalls[1])
    /\ DiffsumOf(RetCalls[1]) # RetCalls[1].diff_to_sibling
    /\ has_statediff(statediff, ret.shortstatehash)

\* C18: the fold of a child diff into a parent diff, each exact relative to
\* its base, applied to the grandparent's full state gives what applying the
\* parent diff and then the child diff gives; the folded added and removed
\* are disjoint, added holds no element of the grandparent's state and
\* removed only elements of it.
C18_FoldComposes ==
    ret.kind = "folded" =>
        /\ ApplyDiff(ret.grandparent, ret.folded)
               = ApplyDiff(ApplyDiff(ret.grandparent, ret.parent), ret.child)
        /\ ret.folded.added \cap ret.folded.removed = {}
        /\ ret.folded.added \cap ret.grandparent = {}
        /\ ret.folded.removed \subseteq ret.grandparent

\* a fold with both cancellations: the child removes an element the parent
\* added and adds back one the parent removed, and a third element changes
C18_Witness ==
    /\ ret.kind = "folded"
    /\ ret.child.removed \cap ret.parent.added # {}
    /\ ret.child.added \cap ret.parent.removed # {}
    /\ ret.folded.added \cup ret.folded.removed # {}

\* C19: the invocations of one save_state_from_diff call each have a parent
\* stack one element shorter than the one before, so they number at most the
\* length of the stack first given plus one; the call writes exactly one
\* record, under the shortstatehash it was given, and changes no other.
C19_RecursionBounded ==
    RetWrote =>
        /\ RetCalls # <<>>
        /\ RetCalls[1].parent_states = ret.states_parents
        /\ \A i \in 1..(Len(RetCalls) - 1) :
               Len(RetCalls[i + 1].parent_states) = Len(RetCalls[i].parent_states) - 1
        /\ Len(RetCalls) <= Len(ret.states_parents) + 1
        /\ ret.trace.writes = <<ret.shortstatehash>>
        /\ has_statediff(statediff, ret.shortstatehash)
        /\ \A e \in Range(ret.states_parents) :
               /\ statediff[e.shortstatehash].added = e.added
               /\ statediff[e.shortstatehash].removed = e.removed

\* a call that needed every invocation it may make: two parents, three
\* invocations, the last one writing a root
C19_Witness ==
    /\ RetWrote
    /\ Len(ret.states_parents) >= 2
    /\ Len(RetCalls) = Len(ret.states_parents) + 1
    /\ statediff[ret.shortstatehash].parent = None

\* C20: the stack loaded for a stored hash H starts with a root record and
\* ends with H; each element's hash is the stored parent of the next one,
\* each element carries the added and removed sets stored under its hash,
\* the first full set is the root's added set and every other full set is
\* the one before plus the element's added minus its removed.
C20_StackRootFirst ==
    \A h \in DOMAIN statediff :
        LET l == load_shortstatehash_info(statediff, stateinfo_cache, h)
            stack == l.stack
        IN  /\ l.ok
            /\ stack # <<>>
            /\ statediff[stack[1].shortstatehash].parent = None
            /\ stack[1].full = stack[1].added
            /\ Last(stack).shortstatehash = h
            /\ \A i \in DOMAIN stack :
                   /\ stack[i].added = statediff[stack[i].shortstatehash].added
                   /\ stack[i].removed = statediff[stack[i].shortstatehash].removed
            /\ \A i \in 1..(Len(stack) - 1) :
                   /\ statediff[stack[i + 1].shortstatehash].parent = stack[i].shortstatehash
                   /\ stack[i + 1].full =
                          (stack[i].full \cup stack[i + 1].added) \ stack[i + 1].removed

\* a stored hash four layers deep whose stack is built on a cached one, with
\* full sets that differ from layer to layer
C20_Witness ==
    \E h \in DOMAIN statediff :
        /\ Len(StoredStack(statediff, h)) = 4
        /\ CacheContains(stateinfo_cache, statediff[h].parent)
        /\ statediff[h].added # {}
        /\ statediff[h].removed # {}

\* C21: in every stored record the parent's shortstatehash is strictly lower
\* than the record's own, so no parent chain comes back to its start.
C21_ParentIsOlder ==
    \A h \in DOMAIN statediff :
        statediff[h].parent # None => statediff[h].parent < h

\* a record stored after a merge on a parent that is not the hash minted
\* just before it
C21_Witness ==
    /\ RetMerged
    /\ statediff[ret.shortstatehash].parent # None
    /\ statediff[ret.shortstatehash].parent < ret.shortstatehash - 1
    /\ ret.previous < ret.shortstatehash - 1

\* C25: a step that stores or changes a record with a parent gives it a parent
\* that had a record before the step and is the hash of an element of the
\* stack loaded for the room's previous state; after every step each stored
\* parent has a record.
C25_ParentLinksResolve ==
    [][/\ \A h \in DOMAIN statediff' :
              statediff'[h].parent # None => statediff'[h].parent \in DOMAIN statediff'
       /\ \A h \in DOMAIN statediff' :
              (/\ h \notin DOMAIN statediff \/ statediff[h] # statediff'[h]
               /\ statediff'[h].parent # None) =>
                  /\ h = ret'.shortstatehash
                  /\ statediff'[h].parent \in DOMAIN statediff
                  /\ \E i \in DOMAIN ret'.states_parents :
                         ret'.states_parents[i].shortstatehash = statediff'[h].parent]_vars

\* a record stored on an ancestor of the previous hash, not on the previous
\* hash itself
C25_Witness ==
    /\ RetMerged
    /\ statediff[ret.shortstatehash].parent # None
    /\ \E i \in 1..(Len(ret.states_parents) - 1) :
           ret.states_parents[i].shortstatehash = statediff[ret.shortstatehash].parent

\* the diff store as a reader sees it while get_statediff fails for key k
DbWithout(db, k) == [h \in DOMAIN db \ {k} |-> db[h]]

\* C23: a load_shortstatehash_info call that ended with the error of a failed
\* get_statediff, for its own hash or for an ancestor, has not changed the
\* stack cache; the same holds of the call taken as one step, whatever the
\* hash loaded and the key that fails.
C23_FailedLoadLeavesCache ==
    /\ \A t \in Tasks :
           task[t].pc = "load_failed" => /\ ~task[t].touched
                                        /\ task[t].frames = <<>>
    /\ \A h \in Hashes, k \in DOMAIN statediff :
           LET l == load_shortstatehash_info(DbWithout(statediff, k), stateinfo_cache, h)
           IN  ~l.ok => l.cache = stateinfo_cache

\* a load failed with a backend error at an ancestor of the hash asked for,
\* after the records of the hash and of another ancestor had been read, while
\* the cache holds the stack of another hash
C23_Witness ==
    \E t \in Tasks :
        /\ task[t].pc = "load_failed"
        /\ task[t].failed_at \in DOMAIN statediff
        /\ task[t].failed_at # task[t].shortstatehash
        /\ task[t].failed_at # statediff[task[t].shortstatehash].parent
        /\ stateinfo_cache # <<>>

\* C24: a task holds the guard of the stack cache only while it is about to
\* do the one lookup or the one insert it locked for, never while it fetches
\* a diff record or is inside the nested call for the parent; no task locks
\* the mutex while holding it, and at most one task holds it.
C24_MutexHeldForOneMapCall ==
    /\ \A t \in Tasks :
           /\ task[t].pc # "deadlocked"
           /\ task[t].holds =>
                  /\ task[t].pc = "loading"
                  /\ Top(t).stage \in {"lookup", "insert"}
                  /\ \A i \in 1..(Len(task[t].frames) - 1) :
                         task[t].frames[i].stage = "awaiting"
    /\ \A t, u \in Tasks : (task[t].holds /\ task[u].holds) => t = u

\* a task holds the guard for the insert of a nested call while the other
\* task, itself in a nested call, waits to lock
C24_Witness ==
    \E t, u \in Tasks :
        /\ t # u
        /\ task[t].holds
        /\ Len(task[t].frames) >= 2
        /\ Top(t).stage = "insert"
        /\ task[u].pc = "loading"
        /\ Len(task[u].frames) >= 2
        /\ Top(u).stage \in {"enter", "built"}

\* a load that returned alone yields the stack the stored records stand for
LoadStepsAgree ==
    \A t \in Tasks :
        task[t].pc = "load_returned" =>
            task[t].response = StoredStack(statediff, task[t].shortstatehash)

\* C22: a load_shortstatehash_info call on a store whose parent links form a
\* cycle ends with an error: the nested calls never use up the call stack.
C22_CyclicLoadEnds ==
    \A t \in Tasks : task[t].pc # "overflow"

====
